---- MODULE Spec2Model ----
(***************************************************************************)
(* Device-session orchestration and element resolution of the Smor-Ting    *)
(* mobile QA automation (smor_ting_mobile/appium).                         *)
(*                                                                         *)
(* Three components are modelled, each with its own specification:         *)
(*   SpecSession  - BaseTest.setup_method / teardown_method and the        *)
(*                  `driver` fixture of conftest.py, driven by the pytest  *)
(*                  runner (setup, call and teardown phases of each test); *)
(*   SpecFind     - the locator resolver of BasePage / BaseTest, one       *)
(*                  polling step of WebDriverWait.until per action;        *)
(*   SpecPort     - AppiumConfig._get_system_port, one probe per action.   *)
(***************************************************************************)
EXTENDS Integers, Sequences, FiniteSets, TLC

VARIABLES
  \* ---- session manager (tests/base_test.py, conftest.py) ----
  pc,              \* position of the worker in the pytest phases of a test
  path,            \* "basetest" (class test) or "fixture" (function test using `driver`)
  hookRegistered,  \* is base_test.pytest_runtest_makereport loaded as a hook
  self_driver,     \* BaseTest.driver of the test instance / drv of the fixture; 0 is None
  outcome,         \* the `_outcome` attribute of the test instance
  created,         \* number of remote sessions created so far (ids 1..created)
  quitCalls,       \* per session: number of quit() calls made on it
  health,          \* per session: "none", "healthy" or "dead"
  cur,             \* session created by the running test, 0 when none
  setupRaised,     \* the setup phase of the running test raised
  bodyRaised,      \* the test body raised
  teardownRaised,  \* teardown_method or the fixture finalizer propagated an error
  testsRun,        \* test methods finished by this worker
  classState,      \* the test class being run: "none", "ready" (setup_class passed), "skipped"
  validated,       \* what the validate_config call gating the running test returned
  calls,           \* the calls the running test made to create and drive its session
  \* ---- locator resolver (tests/common/page_objects/base_page.py, tests/base_test.py) ----
  fop,             \* the resolver operation being executed
  timeout,         \* its per-attempt timeout, in polling ticks
  flutterAvailable,\* FLUTTER_DRIVER_AVAILABLE: the flutter finder package imported
  d1Unsupported,   \* the remote driver rejects the FLUTTER locator strategy
  appears,         \* per descriptor: the tick from which it resolves (Never: it does not)
  diesAt,          \* the tick from which every driver call raises (Never: it does not)
  idx,             \* position in the chain of the attempt in progress, 0 before the first
  now,             \* polling ticks elapsed since the operation began
  polls,           \* polling ticks used by the attempt in progress
  attempts,        \* log of the finished attempts: descriptor and how the wait ended
  fresult,         \* what the operation returned or raised
  \* ---- port allocator (config/appium_config.py) ----
  offsetEnv,       \* os.getenv("SYSTEM_PORT_OFFSET"): set or not, and its characters
  workerEnv,       \* os.getenv("PYTEST_XDIST_WORKER_ID", "master"), its characters
  pid,             \* os.getpid()
  occ,             \* which local ports are bound by other processes
  ppc,             \* position in _get_system_port
  seed,            \* the seeded first candidate
  delta,           \* loop variable of the scan
  lastProbe,       \* the last bind-and-release probe: port and whether bind succeeded
  nProbes,         \* number of probes made
  ret,             \* the returned port
  retPath,         \* the return statement that produced it
  \* ---- parallel workers of one host (config/appium_config.py, tests/base_test.py) ----
  wk,              \* per worker process: where it is between allocating a port and
                   \* quitting its session, and the port it holds
  \* ---- configuration validation (config/appium_config.py) ----
  vin,             \* what validate_config reads
  vout,            \* what it returned and reported
  \* ---- capability profile builder (config/appium_config.py) ----
  platform_name,   \* AppiumConfig.platform_name
  environment,     \* AppiumConfig.environment
  env,             \* os.environ: the override variables, each unset or a string
  app_build_path,  \* AppiumConfig.app_build_path, read from APP_PATH at construction
  cpc,             \* "env" (process starting), "constructed", "built"
  built,           \* the results of the get_capabilities calls made on the config
  \* ---- settle sequence (tests/base_test.py, tests/common/page_objects/auth_pages.py) ----
  settle,          \* the settle steps the running test's set-up completed, in order
  screen,          \* the screen the app shows when the set-up of the running test ends
  \* ---- element interaction (tests/common/page_objects/base_page.py, tests/base_test.py) ----
  aop,             \* the interaction or find operation being executed
  clear_first,     \* its clear_first argument
  present,         \* per descriptor: an element matching it is in the UI
  interactable,    \* per descriptor: that element is displayed and enabled
  dead,            \* the remote session is dead: every driver call raises
  apc,             \* "start", "finding", "resolved", "done" or "raised"
  aidx,            \* position in the chain of the next wait
  waits,           \* log of the waits made: descriptor, backend, condition, how it ended
  target,          \* the descriptor of the element the operation resolved, "" when none
  cmds             \* log of the element commands issued

sessVars == <<pc, path, hookRegistered, self_driver, outcome, created, quitCalls,
              health, cur, setupRaised, bodyRaised, teardownRaised, testsRun,
              classState, validated, calls>>

findVars == <<fop, timeout, flutterAvailable, d1Unsupported, appears, diesAt, idx, now,
              polls, attempts, fresult>>

portVars == <<offsetEnv, workerEnv, pid, occ, ppc, seed, delta, lastProbe, nProbes, ret,
              retPath>>

hostVars == <<wk>>

valVars == <<vin, vout>>

cfgVars == <<platform_name, environment, env, app_build_path, cpc, built>>

launchVars == <<settle, screen>>

actVars == <<aop, clear_first, present, interactable, dead, apc, aidx, waits, target, cmds>>

vars == <<sessVars, findVars, portVars, hostVars, valVars, cfgVars, launchVars, actVars>>

\* Number of test methods one worker runs.
MaxTests == 3

None == 0

\* An environment variable: unset, or set to a string of characters.
Unset == [set |-> FALSE, val |-> <<>>]

EnvStr(s) == [set |-> TRUE, val |-> s]

Sessions == 1..MaxTests

\* Sessions created and not yet quit.
Live == {s \in 1..created : quitCalls[s] = 0}

(***************************************************************************)
(* Session manager                                                         *)
(***************************************************************************)

SessInit ==
  /\ pc = "idle"
  /\ path = "basetest"
  /\ self_driver = None
  /\ outcome = "absent"
  /\ created = 0
  /\ quitCalls = [s \in Sessions |-> 0]
  /\ health = [s \in Sessions |-> "none"]
  /\ cur = None
  /\ setupRaised = FALSE
  /\ bodyRaised = FALSE
  /\ teardownRaised = FALSE
  /\ testsRun = 0
  /\ classState = "none"
  /\ validated = "none"
  /\ calls = <<>>
  /\ settle = <<>>
  /\ screen = "none"

\* webdriver.Remote(...) succeeded: a new remote session exists.
NewSession ==
  /\ created' = created + 1
  /\ health' = [health EXCEPT ![created + 1] = "healthy"]
  /\ cur' = created + 1

\* driver.quit() inside try/except: the call is made, whether or not it raises.
\* quit() on a dead session raises; on a healthy one it may still raise (transport).
QuitInTry(s) ==
  /\ quitCalls' = [quitCalls EXCEPT ![s] = @ + 1]
  /\ health' = [health EXCEPT ![s] = "dead"]

\* What validate_config reads: the platform of the config, whether the app
\* artifact exists, ANDROID_HOME (unset, empty, a directory that exists or
\* not), the host operating system and ALLOW_MISSING_APP.
ValidateInputs ==
  [platform_name : {"android", "ios", "web"},
   appExists     : BOOLEAN,
   androidHome   : {"unset", "empty", "missing", "present"},
   hostOS        : {"Darwin", "Linux"},
   allowMissing  : {Unset, EnvStr(<<"1">>), EnvStr(<<"0">>), EnvStr(<<>>),
                    EnvStr(<<"t", "r", "u", "e">>)}]

\* os.getenv(name, default) on a variable of the snapshot.
getenv(e, default) == IF e.set THEN e.val ELSE default

validate_config_first_error_only(i) ==
  LET errors ==
        IF ~i.appExists THEN <<"App not found">>
        ELSE IF i.platform_name = "android" /\ i.androidHome \in {"unset", "empty"}
             THEN <<"ANDROID_HOME environment variable not set">>
        ELSE IF i.platform_name = "android" /\ i.androidHome = "missing"
             THEN <<"ANDROID_HOME path does not exist">>
        ELSE IF i.platform_name = "ios" /\ i.hostOS # "Darwin"
             THEN <<"iOS testing requires macOS">>
        ELSE <<>>
  IN [ret |-> errors = <<>> \/ getenv(i.allowMissing, <<"0">>) = <<"1">>,
      reported |-> errors]

\* validate_config, lines 295-328: the errors collected and printed, and the
\* value returned.
validate_config(i) ==
  LET errors ==
        (IF ~i.appExists THEN <<"App not found">> ELSE <<>>)
        \o (IF i.platform_name = "android"
            THEN IF i.androidHome \in {"unset", "empty"}
                 THEN <<"ANDROID_HOME environment variable not set">>
                 ELSE IF i.androidHome = "missing"
                      THEN <<"ANDROID_HOME path does not exist">>
                      ELSE <<>>
            ELSE IF i.platform_name = "ios" /\ i.hostOS # "Darwin"
                 THEN <<"iOS testing requires macOS">>
                 ELSE <<>>)
  IN IF errors # <<>>
     THEN [ret |-> getenv(i.allowMissing, <<"0">>) = <<"1">>, reported |-> errors]
     ELSE [ret |-> TRUE, reported |-> <<>>]

PyBool(b) == IF b THEN "True" ELSE "False"

setup_class_never_skips(v) == FALSE

\* BaseTest.setup_class, lines 51-53: pytest.skip unless the validation passed.
setup_class_skips(v) == ~v

\* The `driver` fixture, lines 197-198: the same gate.
driver_fixture_skips(v) == ~v

\* BaseTest.setup_class: get_config, then validate_config on it. A skip raised
\* here skips every test method of the class.
setup_class ==
  /\ pc = "idle"
  /\ classState = "none"
  /\ testsRun < MaxTests
  /\ \E i \in ValidateInputs :
       LET v == validate_config(i).ret IN
       /\ validated' = PyBool(v)
       /\ classState' = IF setup_class_skips(v) THEN "skipped" ELSE "ready"
  /\ UNCHANGED <<pc, path, hookRegistered, self_driver, outcome, created, quitCalls,
                 health, cur, setupRaised, bodyRaised, teardownRaised, testsRun, calls>>
  /\ UNCHANGED <<findVars, portVars, hostVars, valVars, cfgVars, launchVars, actVars>>

\* A test method of a class whose setup_class skipped: it is reported as
\* skipped, setup_method is not run.
skipped_test ==
  /\ pc = "idle"
  /\ classState = "skipped"
  /\ testsRun < MaxTests
  /\ testsRun' = testsRun + 1
  /\ calls' = <<>>
  /\ UNCHANGED <<pc, path, hookRegistered, self_driver, outcome, created, quitCalls,
                 health, cur, setupRaised, bodyRaised, teardownRaised, classState,
                 validated>>
  /\ UNCHANGED <<findVars, portVars, hostVars, valVars, cfgVars, launchVars, actVars>>

\* The class is done (BaseTest.teardown_class only logs).
teardown_class ==
  /\ pc = "idle"
  /\ classState # "none"
  /\ classState' = "none"
  /\ validated' = "none"
  /\ UNCHANGED <<pc, path, hookRegistered, self_driver, outcome, created, quitCalls,
                 health, cur, setupRaised, bodyRaised, teardownRaised, testsRun, calls>>
  /\ UNCHANGED <<findVars, portVars, hostVars, valVars, cfgVars, launchVars, actVars>>

setup_method_calls_unguarded(create, iw) ==
  <<"Remote", "implicitly_wait">>
    \o (IF create = "ok" /\ iw = "ok" THEN <<"find_elements">> ELSE <<>>)

\* The calls setup_method makes for its session: webdriver.Remote once in
\* _create_driver; when that gave no driver, pytest.fail and nothing else;
\* else implicitly_wait, and when that returned the launch wait.
setup_method_calls(create, iw) ==
  <<"Remote">>
    \o (IF create = "raise" THEN <<>>
        ELSE <<"implicitly_wait">> \o (IF iw = "raise" THEN <<>> ELSE <<"find_elements">>))

\* PageFactory defines get_splash_page, get_landing_page and others, but no
\* get_onboarding_page: line 137 of base_test.py raises AttributeError.
PageFactoryHasOnboardingPage == FALSE

\* The screens the app can show when the launch wait is over: it leaves the
\* splash by itself or hangs on it, and shows the first-run interstitial on a
\* fresh install.
Screens == {"splash", "onboarding", "landing"}

\* BaseTest._wait_for_app_launch, lines 120-150. The wait for any element
\* raises or returns; then, inside try/except Exception, the splash wait (which
\* swallows its own exceptions, auth_pages.py 19-28), the interstitial skip and
\* the landing check. An exception of that block is logged as a warning.
\*   launch : the wait for any element returns, times out or raises otherwise
\*   app    : the screen the app shows by the end of the splash wait
wait_for_app_launch(launch, app) ==
  IF launch # "ok" THEN [raised |-> TRUE, steps |-> <<>>, screen |-> "none"]
  ELSE IF PageFactoryHasOnboardingPage
       THEN [raised |-> FALSE,
             steps |-> <<"content", "splash_wait", "skip_if_present", "ensure_loaded">>,
             screen |-> IF app = "onboarding" THEN "landing" ELSE app]
       ELSE [raised |-> FALSE, steps |-> <<"content", "splash_wait">>, screen |-> app]

\* BaseTest.setup_method: a fresh instance (driver None, no _outcome), then
\* _create_driver, implicitly_wait, _wait_for_app_launch.
\*   create : webdriver.Remote returns or raises (caught, _create_driver gives None)
\*   iw     : driver.implicitly_wait returns or raises
\*   launch : the launch wait returns, times out (re-raised) or raises otherwise
setup_method ==
  /\ pc = "idle"
  /\ classState = "ready"
  /\ testsRun < MaxTests
  /\ path' = "basetest"
  /\ outcome' = "absent"
  /\ bodyRaised' = FALSE
  /\ pc' = "after_setup"
  /\ \E create \in {"ok", "raise"}, iw \in {"ok", "raise"},
        launch \in {"ok", "timeout", "error"}, app \in Screens :
       LET w == wait_for_app_launch(launch, app) IN
       /\ calls' = setup_method_calls(create, iw)
       /\ IF create = "raise"
          THEN \* line 68-69: pytest.fail("Failed to create Appium driver")
               /\ self_driver' = None
               /\ cur' = None
               /\ setupRaised' = TRUE
               /\ settle' = <<>>
               /\ screen' = "none"
               /\ UNCHANGED <<created, health>>
          ELSE /\ created' = created + 1
               /\ cur' = created + 1
               /\ self_driver' = created + 1
               /\ setupRaised' = (iw = "raise" \/ w.raised)
               /\ settle' = IF iw = "raise" THEN <<>> ELSE w.steps
               /\ screen' = IF iw = "raise" THEN "none" ELSE w.screen
               /\ health' = [health EXCEPT ![created + 1] =
                               IF iw = "raise" \/ launch = "error" THEN "dead"
                               ELSE "healthy"]
  /\ UNCHANGED <<hookRegistered, quitCalls, teardownRaised, testsRun, classState,
                 validated>>
  /\ UNCHANGED <<findVars, portVars, hostVars, valVars, cfgVars, actVars>>

\* The set-up half of the `driver` fixture: validate_config, get_capabilities,
\* webdriver.Remote inside try; when Remote raises, the finally clause runs with
\* drv None and the error propagates.
driver_fixture_setup ==
  /\ pc = "idle"
  /\ classState = "none"
  /\ testsRun < MaxTests
  /\ path' = "fixture"
  /\ outcome' = "absent"
  /\ bodyRaised' = FALSE
  /\ pc' = "after_setup"
  /\ \E i \in ValidateInputs, create \in {"ok", "raise"} :
       LET valid == validate_config(i).ret IN
       /\ validated' = PyBool(valid)
       /\ calls' = IF driver_fixture_skips(valid) THEN <<>> ELSE <<"Remote">>
       /\ IF driver_fixture_skips(valid) \/ create = "raise"
          THEN /\ self_driver' = None
               /\ cur' = None
               /\ setupRaised' = TRUE
               /\ UNCHANGED <<created, health>>
          ELSE /\ NewSession
               /\ self_driver' = created + 1
               /\ setupRaised' = FALSE
  /\ settle' = <<>>
  /\ screen' = "none"
  /\ UNCHANGED <<hookRegistered, quitCalls, teardownRaised, testsRun, classState>>
  /\ UNCHANGED <<findVars, portVars, hostVars, valVars, cfgVars, actVars>>

\* The report hook, run by pytest after each phase. When loaded it stores the
\* phase's TestReport on the instance of a class test (an object with a
\* teardown_method); a function test has no instance. The runner then moves on:
\* a failed set-up skips the call phase, and teardown_method is not run for it.
pytest_runtest_makereport ==
  /\ pc \in {"after_setup", "after_call", "after_teardown"}
  /\ outcome' = IF hookRegistered /\ path = "basetest" THEN "report" ELSE outcome
  /\ pc' = CASE pc = "after_setup" /\ setupRaised  -> "after_teardown"
             [] pc = "after_setup" /\ ~setupRaised -> "call"
             [] pc = "after_call"                  -> "teardown"
             [] pc = "after_teardown"              -> "idle"
  /\ testsRun' = IF pc = "after_teardown" THEN testsRun + 1 ELSE testsRun
  /\ calls' = IF pc = "after_teardown" THEN <<>> ELSE calls
  /\ UNCHANGED <<path, hookRegistered, self_driver, created, quitCalls, health, cur,
                 setupRaised, bodyRaised, teardownRaised, classState, validated>>
  /\ UNCHANGED <<findVars, portVars, hostVars, valVars, cfgVars, launchVars, actVars>>

\* The body of a test: it passes or an interaction raises; the remote session
\* may die underneath it.
test_body ==
  /\ pc = "call"
  /\ pc' = "after_call"
  /\ \E raises \in BOOLEAN, dies \in BOOLEAN :
       /\ bodyRaised' = raises
       /\ health' = IF dies THEN [health EXCEPT ![cur] = "dead"] ELSE health
  /\ calls' = Append(calls, "ui_action")
  /\ UNCHANGED <<path, hookRegistered, self_driver, outcome, created, quitCalls, cur,
                 setupRaised, teardownRaised, testsRun, classState, validated>>
  /\ UNCHANGED <<findVars, portVars, hostVars, valVars, cfgVars, launchVars, actVars>>

\* A TestReport has no attribute `errors`: reading it raises AttributeError.
OutcomeHasErrorsAttr == FALSE

\* BaseTest.teardown_method, lines 77-93.
teardown_method ==
  /\ pc = "teardown"
  /\ path = "basetest"
  /\ pc' = "after_teardown"
  /\ IF outcome # "absent" /\ ~OutcomeHasErrorsAttr
     THEN \* line 83: hasattr(self, '_outcome') holds, self._outcome.errors raises
          /\ teardownRaised' = TRUE
          /\ UNCHANGED <<self_driver, quitCalls, health>>
     ELSE \* lines 87-93 (the screenshot of line 84 swallows its own errors)
          /\ teardownRaised' = teardownRaised
          /\ IF self_driver # None
             THEN QuitInTry(self_driver) /\ self_driver' = None
             ELSE UNCHANGED <<self_driver, quitCalls, health>>
  /\ UNCHANGED <<path, hookRegistered, outcome, created, cur, setupRaised, bodyRaised,
                 testsRun, classState, validated, calls>>
  /\ UNCHANGED <<findVars, portVars, hostVars, valVars, cfgVars, launchVars, actVars>>

\* The finalizer of the `driver` fixture, lines 227-232: quit inside
\* try/except Exception: pass.
driver_fixture_finalizer ==
  /\ pc = "teardown"
  /\ path = "fixture"
  /\ pc' = "after_teardown"
  /\ IF self_driver # None
     THEN QuitInTry(self_driver) /\ self_driver' = None
     ELSE UNCHANGED <<self_driver, quitCalls, health>>
  /\ UNCHANGED <<path, hookRegistered, outcome, created, cur, setupRaised, bodyRaised,
                 teardownRaised, testsRun, classState, validated, calls>>
  /\ UNCHANGED <<findVars, portVars, hostVars, valVars, cfgVars, launchVars, actVars>>

(***************************************************************************)
(* Configuration validation                                                *)
(***************************************************************************)

NotValidated == [ret |-> FALSE, reported |-> <<"not called">>]

ValInit ==
  /\ vin \in ValidateInputs
  /\ vout = NotValidated

\* The state of the validation while another component is being checked.
ValIdle ==
  /\ vin = [platform_name |-> "android", appExists |-> TRUE, androidHome |-> "present",
            hostOS |-> "Linux", allowMissing |-> Unset]
  /\ vout = NotValidated

\* A call of validate_config(config).
validate ==
  /\ vout = NotValidated
  /\ vout' = validate_config(vin)
  /\ UNCHANGED vin
  /\ UNCHANGED <<sessVars, findVars, portVars, hostVars, cfgVars, launchVars, actVars>>

ValNext == validate

(***************************************************************************)
(* Locator resolver                                                        *)
(*                                                                         *)
(* Time is counted in polling ticks: one tick is one iteration of          *)
(* WebDriverWait.until that did not find the element (the call and the     *)
(* sleep of one poll interval). A wait with a timeout of T ticks gives up  *)
(* after its T-th unsuccessful poll.                                       *)
(***************************************************************************)

\* Largest per-attempt timeout drawn, in polling ticks.
MaxTimeout == 2

\* A tick no operation reaches: a descriptor that never resolves, a session
\* that never dies.
Never == 2 * MaxTimeout + 1

Times == 0..(2 * MaxTimeout - 1) \cup {Never}

\* Operations that try the instrumented (Flutter) backend first.
FlutterFirstOps == {"find_element_flutter_first", "find_flutter_element_by_key",
                    "is_element_present_flutter_first"}

\* Operations on a single native locator.
SingleOps == {"wait_for_element", "is_element_present", "BaseTest_is_element_present"}

FindOps == FlutterFirstOps \cup SingleOps \cup {"choose_locator"}

\* The chain of descriptors an operation resolves, in declared order.
Chain(op) == IF op \in SingleOps THEN <<"D1">> ELSE <<"D1", "D2">>

\* D1 of a flutter-first operation is resolved against the instrumented backend.
Instrumented(op, i) == op \in FlutterFirstOps /\ i = 1

Pending == [kind |-> "pending", val |-> "", carried |-> <<>>]

Element(d) == [kind |-> "element", val |-> d, carried |-> <<>>]

Locator(d) == [kind |-> "locator", val |-> d, carried |-> <<>>]

Bool(b) == [kind |-> "bool", val |-> IF b THEN "True" ELSE "False", carried |-> <<>>]

\* An exception leaving the operation. WebDriverWait.until is called without a
\* message, so the TimeoutException it raises names no descriptor.
Raise(type) == [kind |-> "raise", val |-> type, carried |-> <<>>]

\* How an operation goes on after an attempt: the next position, or its result.
Goto(i) == [next |-> i, res |-> Pending]

Done(r) == [next |-> 0, res |-> r]

\* driver.find_element for position i of the chain at the current tick.
Probe(op, i) ==
  IF now >= diesAt THEN "error"
  ELSE IF Instrumented(op, i) /\ d1Unsupported THEN "error"
  ELSE IF now >= appears[Chain(op)[i]] THEN "found"
  ELSE "nosuch"

ExpiredLate(p, t) == p > t

\* The deadline of WebDriverWait(driver, timeout), checked after each poll.
Expired(p, t) == p >= t

\* BasePage.wait_for_element / BaseTest.wait_for_element, given how the wait
\* on descriptor d ended (BaseTest's logs and re-raises).
wait_for_element(d, res) ==
  CASE res = "found"   -> Element(d)
    [] res = "timeout" -> Raise("TimeoutException")
    [] res = "error"   -> Raise("WebDriverException")

\* BasePage.is_element_present: only TimeoutException is caught.
is_element_present(d, res) ==
  LET r == wait_for_element(d, res) IN
  IF r.kind = "element" THEN Bool(TRUE)
  ELSE IF r.val = "TimeoutException" THEN Bool(FALSE)
  ELSE r

\* BaseTest.is_element_present: the same, on its own WebDriverWait.
BaseTest_is_element_present(d, res) ==
  CASE res = "found"   -> Bool(TRUE)
    [] res = "timeout" -> Bool(FALSE)
    [] res = "error"   -> Raise("WebDriverException")

find_element_flutter_first_eager(i, res) ==
  IF i = 1 THEN Goto(2) ELSE Done(wait_for_element("D2", res))

\* BasePage.find_element_flutter_first after the attempt at position i ended:
\* a found D1 is returned, any exception of the D1 attempt falls through to
\* wait_for_element(fallback_locator).
find_element_flutter_first(i, res) ==
  IF i = 1
  THEN IF res = "found" THEN Done(Element("D1")) ELSE Goto(2)
  ELSE Done(wait_for_element("D2", res))

find_flutter_element_by_key_nofallback(i, res) ==
  IF i = 1 THEN Done(wait_for_element("D1", res)) ELSE Done(wait_for_element("D2", res))

\* BaseTest.find_flutter_element_by_key: the same shape, the fallback being the
\* accessibility id.
find_flutter_element_by_key(i, res) ==
  IF i = 1
  THEN IF res = "found" THEN Done(Element("D1")) ELSE Goto(2)
  ELSE Done(wait_for_element("D2", res))

\* BasePage.is_element_present_flutter_first: except Exception: return False.
is_element_present_flutter_first(i, res) ==
  LET c == find_element_flutter_first(i, res) IN
  IF c.next # 0 THEN c
  ELSE Done(Bool(c.res.kind = "element"))

choose_locator_propagating(i, res) ==
  LET p == is_element_present(Chain("choose_locator")[i], res) IN
  IF p = Bool(TRUE) THEN Done(Locator(Chain("choose_locator")[i]))
  ELSE IF p.kind = "raise" THEN Done(p)
  ELSE IF i < Len(Chain("choose_locator")) THEN Goto(i + 1)
  ELSE Done(Locator(Chain("choose_locator")[1]))

\* BasePage.choose_locator: the first locator that is present; an exception of
\* is_element_present moves on to the next; the first locator when none is.
choose_locator(i, res) ==
  LET p == is_element_present(Chain("choose_locator")[i], res) IN
  IF p = Bool(TRUE) THEN Done(Locator(Chain("choose_locator")[i]))
  ELSE IF i < Len(Chain("choose_locator")) THEN Goto(i + 1)
  ELSE Done(Locator(Chain("choose_locator")[1]))

Dispatch(op, i, res) ==
  CASE op = "find_element_flutter_first"       -> find_element_flutter_first(i, res)
    [] op = "find_flutter_element_by_key"      -> find_flutter_element_by_key(i, res)
    [] op = "is_element_present_flutter_first" -> is_element_present_flutter_first(i, res)
    [] op = "choose_locator"                   -> choose_locator(i, res)
    [] op = "wait_for_element"                 -> Done(wait_for_element("D1", res))
    [] op = "is_element_present"               -> Done(is_element_present("D1", res))
    [] op = "BaseTest_is_element_present"      -> Done(BaseTest_is_element_present("D1", res))

\* Where an operation starts: a flutter-first operation without the flutter
\* finder (self.flutter_finder is None, get_flutter_finder() returns None)
\* goes straight to the native locator.
FirstIdx(op) == IF op \in FlutterFirstOps /\ ~flutterAvailable THEN 2 ELSE 1

FindInit ==
  /\ fop \in FindOps
  /\ timeout \in 1..MaxTimeout
  /\ flutterAvailable \in BOOLEAN
  /\ d1Unsupported \in BOOLEAN
  /\ appears \in [{"D1", "D2"} -> Times]
  /\ diesAt \in Times
  /\ idx = 0
  /\ now = 0
  /\ polls = 0
  /\ attempts = <<>>
  /\ fresult = Pending

\* The state of the resolver while another component is being checked.
FindIdle ==
  /\ fop = "wait_for_element"
  /\ timeout = 1
  /\ flutterAvailable = TRUE
  /\ d1Unsupported = FALSE
  /\ appears = [d \in {"D1", "D2"} |-> Never]
  /\ diesAt = Never
  /\ idx = 0
  /\ now = 0
  /\ polls = 0
  /\ attempts = <<>>
  /\ fresult = Pending

\* The attempt in progress ends with res; the operation returns, raises or
\* moves to the next descriptor.
EndAttempt(res) ==
  LET c == Dispatch(fop, idx, res) IN
  /\ attempts' = Append(attempts, [d |-> Chain(fop)[idx], res |-> res])
  /\ idx' = c.next
  /\ fresult' = c.res
  /\ polls' = 0

\* The operation is entered and its first attempt chosen.
Begin ==
  /\ idx = 0
  /\ fresult = Pending
  /\ attempts = <<>>
  /\ idx' = FirstIdx(fop)
  /\ UNCHANGED <<fop, timeout, flutterAvailable, d1Unsupported, appears, diesAt, now,
                 polls, attempts, fresult>>
  /\ UNCHANGED <<sessVars, portVars, hostVars, valVars, cfgVars, launchVars, actVars>>

\* One iteration of WebDriverWait.until for the attempt in progress.
Poll ==
  /\ idx # 0
  /\ fresult = Pending
  /\ LET o == Probe(fop, idx) IN
       IF o = "nosuch"
       THEN /\ now' = now + 1
            /\ IF Expired(polls + 1, timeout)
               THEN EndAttempt("timeout")
               ELSE /\ polls' = polls + 1
                    /\ UNCHANGED <<idx, attempts, fresult>>
       ELSE /\ now' = now
            /\ EndAttempt(o)
  /\ UNCHANGED <<fop, timeout, flutterAvailable, d1Unsupported, appears, diesAt>>
  /\ UNCHANGED <<sessVars, portVars, hostVars, valVars, cfgVars, launchVars, actVars>>

FindNext ==
  \/ Begin
  \/ Poll

(***************************************************************************)
(* Port allocator                                                          *)
(*                                                                         *)
(* Environment values are sequences of characters, so that isdigit(),      *)
(* replace("gw", ""), `in` and int() are computed as Python computes them. *)
(***************************************************************************)

AsciiDigits == {"0", "1", "2", "3", "4", "5", "6", "7", "8", "9"}

\* Characters str.isdigit() accepts: the decimal digits and digit-like
\* characters such as SUPERSCRIPT TWO, which int() rejects.
IsDigitChars == AsciiDigits \cup {"sup2"}

DigitVal(c) ==
  CASE c = "0" -> 0 [] c = "1" -> 1 [] c = "2" -> 2 [] c = "3" -> 3 [] c = "4" -> 4
    [] c = "5" -> 5 [] c = "6" -> 6 [] c = "7" -> 7 [] c = "8" -> 8 [] c = "9" -> 9

RECURSIVE DecVal(_)
DecVal(s) ==
  IF s = <<>> THEN 0
  ELSE 10 * DecVal(SubSeq(s, 1, Len(s) - 1)) + DigitVal(s[Len(s)])

\* str.isdigit(): non-empty and every character a digit character.
isdigit(s) == Len(s) > 0 /\ \A k \in 1..Len(s) : s[k] \in IsDigitChars

\* int(s): an optional sign and one or more decimal digits; anything else is a
\* ValueError.
int(s) ==
  LET signed == Len(s) > 0 /\ s[1] \in {"-", "+"}
      body   == IF signed THEN Tail(s) ELSE s
  IN IF Len(body) > 0 /\ \A k \in 1..Len(body) : body[k] \in AsciiDigits
     THEN [ok |-> TRUE,
           val |-> IF signed /\ s[1] = "-" THEN 0 - DecVal(body) ELSE DecVal(body)]
     ELSE [ok |-> FALSE, val |-> 0]

\* "gw" in worker_id
ContainsGw(s) == \E k \in 1..(Len(s) - 1) : s[k] = "g" /\ s[k + 1] = "w"

\* worker_id.replace("gw", "")
RECURSIVE RemoveGw(_)
RemoveGw(s) ==
  IF Len(s) < 2 THEN s
  ELSE IF s[1] = "g" /\ s[2] = "w" THEN RemoveGw(SubSeq(s, 3, Len(s)))
  ELSE <<s[1]>> \o RemoveGw(Tail(s))

BasePort == 8200

ScanWidth == 200

PidModulus == 100

\* Values of SYSTEM_PORT_OFFSET drawn: unset, empty, digits, a sign, a word,
\* a digit-like character.
OffsetValues ==
  {Unset, EnvStr(<<>>), EnvStr(<<"0">>), EnvStr(<<"7">>), EnvStr(<<"9", "0", "0">>),
   EnvStr(<<"-", "1">>), EnvStr(<<"a", "b">>), EnvStr(<<"sup2">>)}

\* Values of the worker identifier drawn: the default, xdist workers, and
\* identifiers whose remainder is not a number or is a very large one.
WorkerValues ==
  {<<"m", "a", "s", "t", "e", "r">>, <<"g", "w", "0">>, <<"g", "w", "1">>,
   <<"g", "w">>, <<"g", "w", "x">>, <<"g", "w", "6", "0", "0", "0", "0">>}

PidValues == {4200, 4201, 4299}

\* Occupancy of the local port space by other processes.
OccValues == {"none", "seed", "low", "all", "all_but_one"}

Occupied(port) ==
  CASE occ = "none"        -> FALSE
    [] occ = "seed"        -> port = seed
    [] occ = "low"         -> port \in BasePort..(BasePort + 2)
    [] occ = "all"         -> TRUE
    [] occ = "all_but_one" -> port # seed + ScanWidth - 1

\* Number of worker processes running sessions on the host at the same time.
MaxWorkers == 2

Workers == 1..MaxWorkers

\* Ports on which the instrumentation server of a live session of this suite
\* listens (the systemPort capability of each live session).
Listening == {wk[w].port : w \in {v \in Workers : wk[v].pc = "live"}}

is_free_optimistic(port) ==
  IF port < 0 \/ port > 65535 THEN "overflow" ELSE "free"

\* is_free: bind to 127.0.0.1:port and close. OSError gives False; a port
\* outside 0..65535 makes bind raise OverflowError, which is not caught.
is_free(port) ==
  IF port < 0 \/ port > 65535 THEN "overflow"
  ELSE IF Occupied(port) \/ port \in Listening THEN "busy"
  ELSE "free"

\* worker_num of line 156, or a ValueError.
worker_num(w) == IF ContainsGw(w) THEN int(RemoveGw(w)) ELSE [ok |-> TRUE, val |-> 0]

PortInit ==
  /\ offsetEnv \in OffsetValues
  /\ workerEnv \in WorkerValues
  /\ pid \in PidValues
  /\ occ \in OccValues
  /\ ppc = "entry"
  /\ seed = 0
  /\ delta = 0
  /\ lastProbe = [port |-> 0, ok |-> FALSE]
  /\ nProbes = 0
  /\ ret = 0
  /\ retPath = "none"

\* The state of the allocator while another component is being checked.
PortIdle ==
  /\ offsetEnv = Unset
  /\ workerEnv = <<"m", "a", "s", "t", "e", "r">>
  /\ pid = 4200
  /\ occ = "none"
  /\ ppc = "entry"
  /\ seed = 0
  /\ delta = 0
  /\ lastProbe = [port |-> 0, ok |-> FALSE]
  /\ nProbes = 0
  /\ ret = 0
  /\ retPath = "none"

get_system_port_entry_offset_scanned ==
  /\ ppc = "entry"
  /\ IF offsetEnv.set /\ Len(offsetEnv.val) > 0 /\ isdigit(offsetEnv.val)
     THEN LET n == int(offsetEnv.val) IN
          IF n.ok
          THEN /\ ppc' = "scan"
               /\ seed' = BasePort + n.val
               /\ UNCHANGED <<ret, retPath>>
          ELSE /\ ppc' = "raised"
               /\ UNCHANGED <<ret, retPath, seed>>
     ELSE LET w == worker_num(workerEnv) IN
          IF w.ok
          THEN /\ ppc' = "scan"
               /\ seed' = BasePort + w.val + (pid % PidModulus)
               /\ UNCHANGED <<ret, retPath>>
          ELSE /\ ppc' = "raised"
               /\ UNCHANGED <<ret, retPath, seed>>
  /\ UNCHANGED <<offsetEnv, workerEnv, pid, occ, delta, lastProbe, nProbes>>
  /\ UNCHANGED <<sessVars, findVars, hostVars, valVars, cfgVars, launchVars, actVars>>

\* _get_system_port, lines 148-162: the explicit offset, else the seed.
get_system_port_entry ==
  /\ ppc = "entry"
  /\ IF offsetEnv.set /\ Len(offsetEnv.val) > 0 /\ isdigit(offsetEnv.val)
     THEN LET n == int(offsetEnv.val) IN
          IF n.ok
          THEN /\ ppc' = "returned"
               /\ ret' = BasePort + n.val
               /\ retPath' = "offset"
               /\ UNCHANGED seed
          ELSE /\ ppc' = "raised"
               /\ UNCHANGED <<ret, retPath, seed>>
     ELSE LET w == worker_num(workerEnv) IN
          IF w.ok
          THEN /\ ppc' = "scan"
               /\ seed' = BasePort + w.val + (pid % PidModulus)
               /\ UNCHANGED <<ret, retPath>>
          ELSE /\ ppc' = "raised"
               /\ UNCHANGED <<ret, retPath, seed>>
  /\ UNCHANGED <<offsetEnv, workerEnv, pid, occ, delta, lastProbe, nProbes>>
  /\ UNCHANGED <<sessVars, findVars, hostVars, valVars, cfgVars, launchVars, actVars>>

scan_probe_stride2 ==
  /\ ppc = "scan"
  /\ delta < ScanWidth
  /\ LET candidate == seed + delta
         r == is_free(candidate)
     IN /\ nProbes' = nProbes + 1
        /\ lastProbe' = [port |-> candidate, ok |-> (r = "free")]
        /\ CASE r = "free"     -> /\ ppc' = "returned"
                                  /\ ret' = candidate
                                  /\ retPath' = "scan_hit"
                                  /\ UNCHANGED delta
             [] r = "busy"     -> /\ delta' = delta + 2
                                  /\ UNCHANGED <<ppc, ret, retPath>>
             [] r = "overflow" -> /\ ppc' = "raised"
                                  /\ UNCHANGED <<delta, ret, retPath>>
  /\ UNCHANGED <<offsetEnv, workerEnv, pid, occ, seed>>
  /\ UNCHANGED <<sessVars, findVars, hostVars, valVars, cfgVars, launchVars, actVars>>

\* One iteration of the scan, lines 179-182.
scan_probe ==
  /\ ppc = "scan"
  /\ delta < ScanWidth
  /\ LET candidate == seed + delta
         r == is_free(candidate)
     IN /\ nProbes' = nProbes + 1
        /\ lastProbe' = [port |-> candidate, ok |-> (r = "free")]
        /\ CASE r = "free"     -> /\ ppc' = "returned"
                                  /\ ret' = candidate
                                  /\ retPath' = "scan_hit"
                                  /\ UNCHANGED delta
             [] r = "busy"     -> /\ delta' = delta + 1
                                  /\ UNCHANGED <<ppc, ret, retPath>>
             [] r = "overflow" -> /\ ppc' = "raised"
                                  /\ UNCHANGED <<delta, ret, retPath>>
  /\ UNCHANGED <<offsetEnv, workerEnv, pid, occ, seed>>
  /\ UNCHANGED <<sessVars, findVars, hostVars, valVars, cfgVars, launchVars, actVars>>

\* The scan is exhausted, line 185: the base port, unprobed.
scan_fallback ==
  /\ ppc = "scan"
  /\ delta = ScanWidth
  /\ ppc' = "returned"
  /\ ret' = BasePort
  /\ retPath' = "exhausted"
  /\ UNCHANGED <<offsetEnv, workerEnv, pid, occ, seed, delta, lastProbe, nProbes>>
  /\ UNCHANGED <<sessVars, findVars, hostVars, valVars, cfgVars, launchVars, actVars>>

PortNext ==
  \/ get_system_port_entry
  \/ scan_probe
  \/ scan_fallback

(***************************************************************************)
(* Parallel workers on one host                                            *)
(*                                                                         *)
(* Each worker process builds a profile for every test (setup_method ->    *)
(* _create_driver -> get_capabilities -> _get_system_port), opens a        *)
(* session with it, and quits the session. The probe socket is closed      *)
(* before _get_system_port returns; the port is bound again only when the  *)
(* instrumentation server of the new session starts.                       *)
(***************************************************************************)

DigitChar(n) == CHOOSE c \in AsciiDigits : DigitVal(c) = n

\* PYTEST_XDIST_WORKER_ID of the w-th worker process: gw0, gw1, ...
WorkerId(w) == <<"g", "w", DigitChar(w - 1)>>

\* _get_system_port up to the scan, lines 148-162, as a function of the two
\* environment values and the process id: the explicit offset, the seed of the
\* scan, or the ValueError of int().
explicit_offset_or_seed(off, wid, p) ==
  IF off.set /\ Len(off.val) > 0 /\ isdigit(off.val)
  THEN LET n == int(off.val) IN
       IF n.ok THEN [kind |-> "offset", val |-> BasePort + n.val]
       ELSE [kind |-> "raised", val |-> 0]
  ELSE LET w == worker_num(wid) IN
       IF w.ok THEN [kind |-> "scan", val |-> BasePort + w.val + (p % PidModulus)]
       ELSE [kind |-> "raised", val |-> 0]

IdleWorker(p) ==
  [pc |-> "idle", pid |-> p, seed |-> 0, delta |-> 0, port |-> 0, path |-> "none",
   before |-> {}]

\* The workers are distinct processes; they inherit one SYSTEM_PORT_OFFSET.
HostInit ==
  /\ wk \in [Workers -> {IdleWorker(p) : p \in PidValues}]
  /\ \A v, w \in Workers : v # w => wk[v].pid # wk[w].pid

\* The state of the host while another component is being checked.
HostIdle == wk = [w \in Workers |-> IdleWorker(4200 + w)]

\* Worker w enters _get_system_port for its next session.
worker_get_system_port(w) ==
  /\ wk[w].pc = "idle"
  /\ LET e == explicit_offset_or_seed(offsetEnv, WorkerId(w), wk[w].pid) IN
       wk' = [wk EXCEPT ![w] =
                CASE e.kind = "offset" -> [@ EXCEPT !.pc = "allocated", !.port = e.val,
                                                    !.path = "offset", !.before = {}]
                  [] e.kind = "scan"   -> [@ EXCEPT !.pc = "scan", !.seed = e.val,
                                                    !.delta = 0, !.path = "none"]
                  [] e.kind = "raised" -> [@ EXCEPT !.path = "raised"]]
  /\ UNCHANGED <<sessVars, findVars, portVars, valVars, cfgVars, launchVars, actVars>>

\* One iteration of worker w's scan, lines 179-185: a free candidate is
\* returned (its probe socket already closed); after the last busy candidate
\* the loop ends and the base port is returned. `before` records the workers
\* whose session was live when the returned port was probed.
worker_scan_probe(w) ==
  /\ wk[w].pc = "scan"
  /\ wk[w].delta < ScanWidth
  /\ LET candidate == wk[w].seed + wk[w].delta
         r == is_free(candidate)
     IN wk' = [wk EXCEPT ![w] =
                 CASE r = "free" ->
                        [@ EXCEPT !.pc = "allocated", !.port = candidate,
                                  !.path = "scan_hit",
                                  !.before = {v \in Workers : wk[v].pc = "live"}]
                   [] r = "busy" /\ wk[w].delta + 1 < ScanWidth ->
                        [@ EXCEPT !.delta = @ + 1]
                   [] r = "busy" /\ wk[w].delta + 1 = ScanWidth ->
                        [@ EXCEPT !.pc = "allocated", !.port = BasePort,
                                  !.path = "exhausted", !.before = {}]
                   [] r = "overflow" ->
                        [@ EXCEPT !.pc = "idle", !.path = "raised"]]
  /\ UNCHANGED <<sessVars, findVars, portVars, valVars, cfgVars, launchVars, actVars>>

\* webdriver.Remote with the built profile: the session is created and its
\* instrumentation server takes systemPort, or the creation fails and the
\* test with it. What the server does with a port another session listens on
\* is outside this repository: it may fail or take the port over.
worker_open_session(w) ==
  /\ wk[w].pc = "allocated"
  /\ \E created_ok \in BOOLEAN :
       wk' = [wk EXCEPT ![w] = IF created_ok THEN [@ EXCEPT !.pc = "live"]
                               ELSE [@ EXCEPT !.pc = "idle"]]
  /\ UNCHANGED <<sessVars, findVars, portVars, valVars, cfgVars, launchVars, actVars>>

\* driver.quit() of worker w's session: its port is released.
worker_quit(w) ==
  /\ wk[w].pc = "live"
  /\ wk' = [v \in Workers |->
              IF v = w THEN [wk[v] EXCEPT !.pc = "idle"]
              ELSE [wk[v] EXCEPT !.before = @ \ {w}]]
  /\ UNCHANGED <<sessVars, findVars, portVars, valVars, cfgVars, launchVars, actVars>>

HostNext ==
  \E w \in Workers :
    \/ worker_get_system_port(w)
    \/ worker_scan_probe(w)
    \/ worker_open_session(w)
    \/ worker_quit(w)

(***************************************************************************)
(* Capability profile builder                                              *)
(*                                                                         *)
(* A profile is a function from capability keys to values. Strings are     *)
(* sequences of characters; a value no code inspects (a device name, a     *)
(* path) is written as a sequence of one or two chunks.                    *)
(***************************************************************************)

StrVal(x) == [t |-> "str", s |-> x, n |-> 0, b |-> FALSE]

IntVal(x) == [t |-> "int", s |-> <<>>, n |-> x, b |-> FALSE]

BoolVal(x) == [t |-> "bool", s |-> <<>>, n |-> 0, b |-> x]

NoneVal == [t |-> "none", s |-> <<>>, n |-> 0, b |-> FALSE]

AndroidTimeoutVars ==
  {"ANDROID_INSTALL_TIMEOUT_MS", "UIA2_INSTALL_TIMEOUT_MS", "UIA2_LAUNCH_TIMEOUT_MS",
   "ADB_EXEC_TIMEOUT_MS"}

IosIntVars ==
  {"WDA_LAUNCH_TIMEOUT_MS", "WDA_CONNECTION_TIMEOUT_MS", "WDA_STARTUP_RETRIES",
   "WDA_STARTUP_RETRY_INTERVAL_MS", "SIMULATOR_STARTUP_TIMEOUT_MS"}

FlagVars == {"ANDROID_NO_RESET", "USE_PREBUILT_WDA"}

AndroidNameVars ==
  {"ANDROID_AUTOMATION_NAME", "ANDROID_API_LEVEL", "ANDROID_DEVICE_NAME",
   "ANDROID_APP_WAIT_ACTIVITY", "ANDROID_AVD_NAME"}

IosNameVars ==
  {"IOS_VERSION", "XCODE_ORG_ID", "XCODE_SIGNING_ID", "WDA_BUNDLE_ID"}

\* The environment variables the builder reads.
EnvNames ==
  AndroidTimeoutVars \cup IosIntVars \cup FlagVars \cup AndroidNameVars \cup IosNameVars
    \cup {"IOS_DEVICE_NAME", "IOS_BUNDLE_ID", "APP_PATH", "SYSTEM_PORT_OFFSET",
          "PYTEST_XDIST_WORKER_ID"}

\* The values a variable is set to: numbers, zero, a negative number, a word
\* and the empty string for the variables parsed with int(); the two flag
\* values; a plain and a simulator device name; and so on.
EnvValues(name) ==
  CASE name \in AndroidTimeoutVars \cup IosIntVars ->
         {<<"6", "0">>, <<"0">>, <<"-", "1">>, <<"a", "b">>, <<>>}
    [] name \in FlagVars -> {<<"1">>, <<"0">>}
    [] name = "IOS_DEVICE_NAME" -> {<<"iPad">>, <<"iPhone 15 ", "Simulator">>}
    [] name \in {"IOS_BUNDLE_ID", "APP_PATH"} -> {<<"custom">>, <<>>}
    [] name = "SYSTEM_PORT_OFFSET" ->
         {<<"0">>, <<"7">>, <<"9", "0", "0">>, <<"sup2">>, <<"a", "b">>}
    [] name = "PYTEST_XDIST_WORKER_ID" ->
         {<<"g", "w", "1">>, <<"g", "w", "x">>, <<"g", "w", "6", "0", "0", "0", "0">>}
    [] OTHER -> {<<"custom">>}

\* Number of variables set in the environment of the process.
MaxOverrides == 1

\* Platform names passed to get_config (--platform, PLATFORM): no choice list
\* restricts them.
Platforms == {"android", "iOS", "web"}

\* str.lower() on the platform names drawn.
lower(s) == CASE s = "iOS" -> "ios" [] s = "Android" -> "android" [] OTHER -> s

Environments == {"local", "ci", "staging", "production"}

NoEnv == [name \in EnvNames |-> Unset]

SetVars(e) == {name \in EnvNames : e[name].set}

\* AppiumConfig._get_app_build_path: APP_PATH when set and not empty, else the
\* build output of the platform under the project root.
get_app_build_path(plat, e) ==
  IF e["APP_PATH"].set /\ e["APP_PATH"].val # <<>> THEN e["APP_PATH"].val
  ELSE IF plat = "android"
       THEN <<"project_root", "/build/app/outputs/flutter-apk/app-debug.apk">>
       ELSE <<"project_root", "/build/ios/iphonesimulator/Runner.app">>

Returned(port) == [kind |-> "return", val |-> port, err |-> ""]

PortRaised(type) == [kind |-> "raise", val |-> 0, err |-> type]

\* The scan of lines 179-185 from a seed: the first candidate that is not busy
\* ends it, returned when free, an OverflowError of bind when out of range;
\* the base port when all are busy.
scan_from(sd) ==
  LET stop == {d \in 0..(ScanWidth - 1) : is_free(sd + d) # "busy"} IN
  IF stop = {} THEN Returned(BasePort)
  ELSE LET first == CHOOSE d \in stop : \A x \in stop : d <= x IN
       IF is_free(sd + first) = "free" THEN Returned(sd + first)
       ELSE PortRaised("OverflowError")

get_system_port_offset_probed(off, wid, p) ==
  LET e == explicit_offset_or_seed(off, wid, p) IN
  CASE e.kind = "offset" -> scan_from(e.val)
    [] e.kind = "scan"   -> scan_from(e.val)
    [] e.kind = "raised" -> PortRaised("ValueError")

\* AppiumConfig._get_system_port as a function of SYSTEM_PORT_OFFSET, the
\* worker identifier and the process id (and of the ports bound on the host).
get_system_port(off, wid, p) ==
  LET e == explicit_offset_or_seed(off, wid, p) IN
  CASE e.kind = "offset" -> Returned(e.val)
    [] e.kind = "scan"   -> scan_from(e.val)
    [] e.kind = "raised" -> PortRaised("ValueError")

Profile(caps) == [kind |-> "profile", caps |-> caps, err |-> ""]

BuildRaised(type) == [kind |-> "raise", caps |-> ("error" :> StrVal(<<type>>)), err |-> type]

D300000 == <<"3", "0", "0", "0", "0", "0">>

D180000 == <<"1", "8", "0", "0", "0", "0">>

\* AppiumConfig.get_android_capabilities, lines 34-75.
get_android_capabilities(envt, app, e, p) ==
  LET is_ci == envt = "ci"
      t == [name \in AndroidTimeoutVars |-> int(getenv(e[name], D300000))]
      port == get_system_port(e["SYSTEM_PORT_OFFSET"],
                              getenv(e["PYTEST_XDIST_WORKER_ID"],
                                     <<"m", "a", "s", "t", "e", "r">>), p)
      capabilities ==
        ("platformName" :> StrVal(<<"Android">>))
        @@ ("platformVersion" :> StrVal(getenv(e["ANDROID_API_LEVEL"], <<"3", "4">>)))
        @@ ("deviceName" :> StrVal(getenv(e["ANDROID_DEVICE_NAME"], <<"Android Emulator">>)))
        @@ ("automationName" :> StrVal(getenv(e["ANDROID_AUTOMATION_NAME"], <<"UiAutomator2">>)))
        @@ ("app" :> StrVal(app))
        @@ ("appPackage" :> StrVal(<<"com.smorting.app.smor_ting_mobile">>))
        @@ ("appActivity" :> StrVal(<<"com.smorting.app.smor_ting_mobile.MainActivity">>))
        @@ ("appWaitActivity" :> StrVal(getenv(e["ANDROID_APP_WAIT_ACTIVITY"], <<"*">>)))
        @@ ("autoGrantPermissions" :> BoolVal(TRUE))
        @@ ("noReset" :> BoolVal(IF ~is_ci THEN getenv(e["ANDROID_NO_RESET"], <<"1">>) = <<"1">>
                                 ELSE FALSE))
        @@ ("fullReset" :> BoolVal(IF ~is_ci THEN FALSE ELSE TRUE))
        @@ ("newCommandTimeout" :> IntVal(300))
        @@ ("androidInstallTimeout" :> IntVal(t["ANDROID_INSTALL_TIMEOUT_MS"].val))
        @@ ("uiautomator2ServerInstallTimeout" :> IntVal(t["UIA2_INSTALL_TIMEOUT_MS"].val))
        @@ ("uiautomator2ServerLaunchTimeout" :> IntVal(t["UIA2_LAUNCH_TIMEOUT_MS"].val))
        @@ ("adbExecTimeout" :> IntVal(t["ADB_EXEC_TIMEOUT_MS"].val))
        @@ ("avd" :> StrVal(getenv(e["ANDROID_AVD_NAME"],
                                   getenv(e["ANDROID_DEVICE_NAME"],
                                          <<"Medium_Phone_API_36.0">>))))
        @@ ("avdLaunchTimeout" :> IntVal(180000))
        @@ ("avdReadyTimeout" :> IntVal(180000))
        @@ ("systemPort" :> IntVal(port.val))
        @@ ("skipDeviceInitialization" :> BoolVal(TRUE))
        @@ ("ignoreHiddenApiPolicyError" :> BoolVal(TRUE))
        @@ ("disableWindowAnimation" :> BoolVal(TRUE))
      ci_update ==
        ("isHeadless" :> BoolVal(TRUE))
        @@ ("avdArgs" :> StrVal(<<"-no-audio -no-window -gpu swiftshader_indirect">>))
        @@ ("deviceReadyTimeout" :> IntVal(120))
        @@ ("androidDeviceReadyTimeout" :> IntVal(120))
  IN IF \E name \in AndroidTimeoutVars : ~t[name].ok THEN BuildRaised("ValueError")
     ELSE IF port.kind = "raise" THEN BuildRaised(port.err)
     ELSE IF envt = "ci" THEN Profile(ci_update @@ capabilities)
     ELSE Profile(capabilities)

\* "Simulator" in capabilities["deviceName"]
ContainsSimulator(x) == \E k \in 1..Len(x) : x[k] = "Simulator"

\* AppiumConfig.get_ios_capabilities, lines 77-119.
get_ios_capabilities(envt, app, e) ==
  LET t == [name \in IosIntVars |->
              int(getenv(e[name],
                         CASE name = "WDA_STARTUP_RETRIES" -> <<"2">>
                           [] name = "WDA_STARTUP_RETRY_INTERVAL_MS" -> <<"5", "0", "0", "0">>
                           [] name = "SIMULATOR_STARTUP_TIMEOUT_MS" -> D300000
                           [] OTHER -> D180000))]
      deviceName == getenv(e["IOS_DEVICE_NAME"], <<"iPhone 13">>)
      simulator == ContainsSimulator(deviceName) \/ envt = "ci"
      optional(v) == IF v.set THEN StrVal(v.val) ELSE NoneVal
      bundle == IF e["IOS_BUNDLE_ID"].set /\ e["IOS_BUNDLE_ID"].val # <<>>
                THEN ("bundleId" :> StrVal(e["IOS_BUNDLE_ID"].val))
                ELSE <<>>
      capabilities ==
        ("platformName" :> StrVal(<<"iOS">>))
        @@ ("platformVersion" :> StrVal(getenv(e["IOS_VERSION"], <<"1", "6", ".", "4">>)))
        @@ ("deviceName" :> StrVal(deviceName))
        @@ ("automationName" :> StrVal(<<"XCUITest">>))
        @@ ("app" :> StrVal(app))
        @@ ("noReset" :> BoolVal(FALSE))
        @@ ("fullReset" :> BoolVal(TRUE))
        @@ ("newCommandTimeout" :> IntVal(300))
        @@ ("wdaLaunchTimeout" :> IntVal(t["WDA_LAUNCH_TIMEOUT_MS"].val))
        @@ ("wdaConnectionTimeout" :> IntVal(t["WDA_CONNECTION_TIMEOUT_MS"].val))
        @@ ("wdaStartupRetries" :> IntVal(t["WDA_STARTUP_RETRIES"].val))
        @@ ("wdaStartupRetryInterval" :> IntVal(t["WDA_STARTUP_RETRY_INTERVAL_MS"].val))
        @@ ("iosInstallPause" :> IntVal(8000))
        @@ ("autoAcceptAlerts" :> BoolVal(TRUE))
        @@ ("xcodeOrgId" :> optional(e["XCODE_ORG_ID"]))
        @@ ("xcodeSigningId" :> StrVal(getenv(e["XCODE_SIGNING_ID"], <<"iPhone Developer">>)))
        @@ ("updatedWDABundleId" :> optional(e["WDA_BUNDLE_ID"]))
        @@ ("usePrebuiltWDA" :> BoolVal(getenv(e["USE_PREBUILT_WDA"], <<"0">>) = <<"1">>))
        @@ ("showXcodeLog" :> BoolVal(TRUE))
        @@ ("shouldUseSingletonTestManager" :> BoolVal(FALSE))
      simulator_update ==
        ("isSimulator" :> BoolVal(TRUE))
        @@ ("simulatorStartupTimeout" :> IntVal(t["SIMULATOR_STARTUP_TIMEOUT_MS"].val))
        @@ ("useSimulatorPasteboard" :> BoolVal(TRUE))
      early == IosIntVars \ {"SIMULATOR_STARTUP_TIMEOUT_MS"}
  IN IF \E name \in early : ~t[name].ok THEN BuildRaised("ValueError")
     ELSE IF simulator /\ ~t["SIMULATOR_STARTUP_TIMEOUT_MS"].ok THEN BuildRaised("ValueError")
     ELSE IF simulator THEN Profile(simulator_update @@ (bundle @@ capabilities))
     ELSE Profile(bundle @@ capabilities)

\* AppiumConfig.get_capabilities, lines 121-137: the platform's capabilities
\* over the base ones.
get_capabilities(plat, envt, app, e, p) ==
  LET base_capabilities ==
        ("orientation" :> StrVal(<<"PORTRAIT">>))
        @@ ("unicodeKeyboard" :> BoolVal(TRUE))
        @@ ("resetKeyboard" :> BoolVal(TRUE))
        @@ ("clearSystemFiles" :> BoolVal(TRUE))
      platform_caps == IF plat = "android" THEN get_android_capabilities(envt, app, e, p)
                       ELSE get_ios_capabilities(envt, app, e)
  IN IF platform_caps.kind = "raise" THEN platform_caps
     ELSE Profile(platform_caps.caps @@ base_capabilities)

CfgInit ==
  /\ platform_name = "android"
  /\ environment = "local"
  /\ env = NoEnv
  /\ app_build_path = <<>>
  /\ cpc = "env"
  /\ built = <<>>

\* The state of the builder while another component is being checked.
CfgIdle == CfgInit

\* The process is started with one more variable set in its environment.
setenv ==
  /\ cpc = "env"
  /\ Cardinality(SetVars(env)) < MaxOverrides
  /\ \E name \in EnvNames \ SetVars(env) : \E v \in EnvValues(name) :
       env' = [env EXCEPT ![name] = EnvStr(v)]
  /\ UNCHANGED <<platform_name, environment, app_build_path, cpc, built>>
  /\ UNCHANGED <<sessVars, findVars, portVars, hostVars, valVars, launchVars, actVars>>

\* get_config(platform_name, environment): AppiumConfig.__init__.
get_config ==
  /\ cpc = "env"
  /\ \E plat \in Platforms, envt \in Environments :
       /\ platform_name' = lower(plat)
       /\ environment' = envt
       /\ app_build_path' = get_app_build_path(lower(plat), env)
  /\ cpc' = "constructed"
  /\ UNCHANGED <<env, built>>
  /\ UNCHANGED <<sessVars, findVars, portVars, hostVars, valVars, launchVars, actVars>>

\* config.get_capabilities() as _create_driver and the driver fixture call it.
build ==
  /\ cpc = "constructed"
  /\ built' = <<get_capabilities(platform_name, environment, app_build_path, env, pid)>>
  /\ cpc' = "built"
  /\ UNCHANGED <<platform_name, environment, env, app_build_path>>
  /\ UNCHANGED <<sessVars, findVars, portVars, hostVars, valVars, launchVars, actVars>>

\* Between two builds under one environment snapshot other processes bind or
\* release ports, and the second build may be made by another process (the
\* next run, a forked worker).
later ==
  /\ cpc = "built"
  /\ cpc' = "later"
  /\ pid' \in {4200, 4201}
  /\ occ' \in {"none", "low"}
  /\ UNCHANGED <<offsetEnv, workerEnv, ppc, seed, delta, lastProbe, nProbes, ret, retPath>>
  /\ UNCHANGED <<platform_name, environment, env, app_build_path, built>>
  /\ UNCHANGED <<sessVars, findVars, hostVars, valVars, launchVars, actVars>>

\* config.get_capabilities() once more on the same config: the next test's
\* _create_driver, restart_app, get_current_activity.
build_again ==
  /\ cpc = "later"
  /\ built' = Append(built, get_capabilities(platform_name, environment, app_build_path,
                                             env, pid))
  /\ cpc' = "rebuilt"
  /\ UNCHANGED <<platform_name, environment, env, app_build_path>>
  /\ UNCHANGED <<sessVars, findVars, portVars, hostVars, valVars, launchVars, actVars>>

CfgNext ==
  \/ setenv
  \/ get_config
  \/ build
  \/ later
  \/ build_again

(***************************************************************************)
(* Element interaction                                                     *)
(*                                                                         *)
(* An operation resolves an element through one or two waits and then      *)
(* issues commands on it. Each wait is one step: how it ends follows from   *)
(* the UI (is an element matching the descriptor there, is it displayed    *)
(* and enabled) and from the state of the remote session.                  *)
(***************************************************************************)

TapOps == {"tap", "tap_element", "tap_flutter_first", "tap_flutter_element_by_key"}

EnterOps == {"enter_text", "BaseTest_enter_text", "enter_text_flutter_first"}

\* The finds that try the instrumented backend first.
InstrumentedFirstFinds ==
  {"find_element_flutter_first", "find_flutter_element_by_key",
   "find_flutter_element_by_text", "find_flutter_element_by_type"}

ActOps == TapOps \cup EnterOps \cup InstrumentedFirstFinds

\* The find an operation resolves its element with.
FindOf(op) ==
  CASE op = "tap"                        -> "wait_for_element_clickable"
    [] op = "tap_element"                -> "wait_for_element_clickable"
    [] op = "tap_flutter_first"          -> "find_element_flutter_first"
    [] op = "tap_flutter_element_by_key" -> "find_flutter_element_by_key"
    [] op = "enter_text"                 -> "wait_for_element"
    [] op = "BaseTest_enter_text"        -> "wait_for_element"
    [] op = "enter_text_flutter_first"   -> "find_element_flutter_first"
    [] OTHER                             -> op

\* The expected condition of the wait at position i of a find:
\* element_to_be_clickable in wait_for_element_clickable, the bare
\* driver.find_element of the instrumented attempt and
\* presence_of_element_located of wait_for_element otherwise.
Condition(f, i) == IF f = "wait_for_element_clickable" THEN "clickable" ELSE "presence"

Backend(f, i) == IF f \in InstrumentedFirstFinds /\ i = 1 THEN "instrumented" ELSE "native"

\* BasePage.wait_for_element_clickable / BaseTest.wait_for_element_clickable.
wait_for_element_clickable(d, res) ==
  CASE res = "found"   -> Element(d)
    [] res = "timeout" -> Raise("TimeoutException")
    [] res = "error"   -> Raise("WebDriverException")

\* BaseTest.find_flutter_element_by_text: the fallback is the XPath on @text.
find_flutter_element_by_text(i, res) ==
  IF i = 1
  THEN IF res = "found" THEN Done(Element("D1")) ELSE Goto(2)
  ELSE Done(wait_for_element("D2", res))

\* BaseTest.find_flutter_element_by_type: without a finder the class name is
\* waited for; an exception of the instrumented attempt is logged and
\* re-raised (line 384).
find_flutter_element_by_type(i, res) ==
  IF i = 1
  THEN CASE res = "found"   -> Done(Element("D1"))
         [] res = "timeout" -> Done(Raise("TimeoutException"))
         [] res = "error"   -> Done(Raise("WebDriverException"))
  ELSE Done(wait_for_element("D2", res))

\* How a find goes on after the wait at position i ended with res.
Resolve(f, i, res) ==
  CASE f = "wait_for_element_clickable"   -> Done(wait_for_element_clickable("D1", res))
    [] f = "wait_for_element"             -> Done(wait_for_element("D1", res))
    [] f = "find_element_flutter_first"   -> find_element_flutter_first(i, res)
    [] f = "find_flutter_element_by_key"  -> find_flutter_element_by_key(i, res)
    [] f = "find_flutter_element_by_text" -> find_flutter_element_by_text(i, res)
    [] f = "find_flutter_element_by_type" -> find_flutter_element_by_type(i, res)

\* Where a find starts: without the flutter finder an instrumented-first find
\* goes straight to its native locator.
ActFirstIdx(f) == IF f \in InstrumentedFirstFinds /\ ~flutterAvailable THEN 2 ELSE 1

ActDescriptor(i) == IF i = 1 THEN "D1" ELSE "D2"

\* How the wait at position i of find f ends.
WaitResult(f, i) ==
  IF dead THEN "error"
  ELSE IF Backend(f, i) = "instrumented" /\ d1Unsupported THEN "error"
  ELSE IF present[ActDescriptor(i)]
          /\ (Condition(f, i) = "presence" \/ interactable[ActDescriptor(i)])
       THEN "found"
  ELSE "timeout"

enter_text_commands_type_first(cf) ==
  IF cf THEN <<"send_keys", "clear">> ELSE <<"send_keys">>

\* enter_text / enter_text_flutter_first / BaseTest.enter_text after the
\* element is resolved: element.clear() if clear_first, then send_keys(text).
enter_text_commands(cf) ==
  IF cf THEN <<"clear", "send_keys">> ELSE <<"send_keys">>

\* The commands an operation issues on the element it resolved.
Commands(op, cf) ==
  IF op \in TapOps THEN <<"click">>
  ELSE IF op \in EnterOps THEN enter_text_commands(cf)
  ELSE <<>>

ActInit ==
  /\ aop \in ActOps
  /\ clear_first \in (IF aop \in EnterOps THEN BOOLEAN ELSE {TRUE})
  /\ present \in [{"D1", "D2"} -> BOOLEAN]
  /\ interactable \in [{"D1", "D2"} -> BOOLEAN]
  /\ dead \in BOOLEAN
  /\ apc = "start"
  /\ aidx = 0
  /\ waits = <<>>
  /\ target = ""
  /\ cmds = <<>>

\* The state of the interaction layer while another component is being checked.
ActIdle ==
  /\ aop = "tap"
  /\ clear_first = TRUE
  /\ present = [d \in {"D1", "D2"} |-> FALSE]
  /\ interactable = [d \in {"D1", "D2"} |-> FALSE]
  /\ dead = FALSE
  /\ apc = "start"
  /\ aidx = 0
  /\ waits = <<>>
  /\ target = ""
  /\ cmds = <<>>

\* The operation is entered.
act_begin ==
  /\ apc = "start"
  /\ apc' = "finding"
  /\ aidx' = ActFirstIdx(FindOf(aop))
  /\ UNCHANGED <<aop, clear_first, present, interactable, dead, waits, target, cmds>>
  /\ UNCHANGED <<sessVars, findVars, portVars, hostVars, valVars, cfgVars, launchVars>>

\* One wait of the find ends; the find moves to its next descriptor, returns
\* the element or raises.
act_wait ==
  /\ apc = "finding"
  /\ LET f   == FindOf(aop)
         res == WaitResult(f, aidx)
         c   == Resolve(f, aidx, res)
     IN /\ waits' = Append(waits, [d |-> ActDescriptor(aidx), backend |-> Backend(f, aidx),
                                   cond |-> Condition(f, aidx), res |-> res])
        /\ IF c.next # 0
           THEN /\ aidx' = c.next
                /\ UNCHANGED <<apc, target>>
           ELSE /\ aidx' = 0
                /\ target' = IF c.res.kind = "element" THEN c.res.val ELSE ""
                /\ apc' = IF c.res.kind # "element" THEN "raised"
                          ELSE IF Commands(aop, clear_first) = <<>> THEN "done"
                          ELSE "resolved"
  /\ UNCHANGED <<aop, clear_first, present, interactable, dead, cmds>>
  /\ UNCHANGED <<sessVars, findVars, portVars, hostVars, valVars, cfgVars, launchVars>>

\* The next command on the resolved element: it returns, or raises (the
\* element went stale, the session died) and the operation ends there.
act_command ==
  /\ apc = "resolved"
  /\ LET todo == Commands(aop, clear_first)
         k    == Len(cmds) + 1
     IN /\ cmds' = Append(cmds, [cmd |-> todo[k], d |-> target])
        /\ \E raises \in BOOLEAN :
             apc' = IF raises THEN "raised"
                    ELSE IF k = Len(todo) THEN "done"
                    ELSE "resolved"
  /\ UNCHANGED <<aop, clear_first, present, interactable, dead, aidx, waits, target>>
  /\ UNCHANGED <<sessVars, findVars, portVars, hostVars, valVars, cfgVars, launchVars>>

ActNext ==
  \/ act_begin
  \/ act_wait
  \/ act_command

SessNext ==
  \/ setup_class
  \/ skipped_test
  \/ teardown_class
  \/ setup_method
  \/ driver_fixture_setup
  \/ pytest_runtest_makereport
  \/ test_body
  \/ teardown_method
  \/ driver_fixture_finalizer

\* The worker of this repository's layout or one with tests/base_test.py loaded
\* as a plugin (its report hook active).
InitSession == SessInit /\ hookRegistered \in BOOLEAN /\ FindIdle /\ PortIdle /\ HostIdle
  /\ ValIdle /\ CfgIdle /\ ActIdle

SpecSession == InitSession /\ [][SessNext]_vars

\* The repository's own layout: base_test.py is a plain module, its hook is not
\* registered.
InitSessionNoHook == SessInit /\ hookRegistered = FALSE /\ FindIdle /\ PortIdle /\ HostIdle
  /\ ValIdle /\ CfgIdle /\ ActIdle

SpecSessionNoHook == InitSessionNoHook /\ [][SessNext]_vars

InitFind == FindInit /\ SessInit /\ hookRegistered = FALSE /\ PortIdle /\ HostIdle
  /\ ValIdle /\ CfgIdle /\ ActIdle

SpecFind == InitFind /\ [][FindNext]_vars

InitPort == PortInit /\ SessInit /\ hookRegistered = FALSE /\ FindIdle /\ HostIdle
  /\ ValIdle /\ CfgIdle /\ ActIdle

SpecPort == InitPort /\ [][PortNext]_vars

\* The allocator is straight-line code of one thread: each of its steps is
\* taken once it is enabled.
SpecPortFair == InitPort /\ [][PortNext]_vars /\ WF_vars(PortNext)

\* Several workers of one run: the allocator of each reads the inherited
\* SYSTEM_PORT_OFFSET (unset, or the offset of a CI matrix job).
InitHost ==
  /\ HostInit
  /\ offsetEnv \in {Unset, EnvStr(<<"7">>)}
  /\ workerEnv = <<"m", "a", "s", "t", "e", "r">>
  /\ pid = 4200
  /\ occ = "none"
  /\ ppc = "entry"
  /\ seed = 0
  /\ delta = 0
  /\ lastProbe = [port |-> 0, ok |-> FALSE]
  /\ nProbes = 0
  /\ ret = 0
  /\ retPath = "none"
  /\ SessInit /\ hookRegistered = FALSE /\ FindIdle
  /\ ValIdle /\ CfgIdle /\ ActIdle

SpecHost == InitHost /\ [][HostNext]_vars

InitValidate ==
  /\ ValInit
  /\ SessInit /\ hookRegistered = FALSE /\ FindIdle /\ PortIdle /\ HostIdle /\ CfgIdle
  /\ ActIdle

SpecValidate == InitValidate /\ [][ValNext]_vars

InitBuild ==
  /\ CfgInit
  /\ PortIdle
  /\ SessInit /\ hookRegistered = FALSE /\ FindIdle /\ HostIdle /\ ValIdle /\ ActIdle

SpecBuild == InitBuild /\ [][CfgNext]_vars

\* One interaction on a session: the finder package imported or not, the
\* remote driver accepting the FLUTTER strategy or not.
InitAct ==
  /\ ActInit
  /\ fop = "wait_for_element"
  /\ timeout = 1
  /\ flutterAvailable \in BOOLEAN
  /\ d1Unsupported \in BOOLEAN
  /\ appears = [d \in {"D1", "D2"} |-> Never]
  /\ diesAt = Never
  /\ idx = 0
  /\ now = 0
  /\ polls = 0
  /\ attempts = <<>>
  /\ fresult = Pending
  /\ SessInit /\ hookRegistered = FALSE /\ PortIdle /\ HostIdle /\ ValIdle /\ CfgIdle

SpecAct == InitAct /\ [][ActNext]_vars

(***************************************************************************)
(* Claims about the session manager                                        *)
(***************************************************************************)

\* C1: when the execution of a test method has ended (pass, fail, or an error
\* in set-up after the driver was created), every remote session that was
\* created has been quit.
C1_SessionReleased == (pc = "idle") => (Live = {})

\* C2: when the test body raised, after teardown_method quit was called exactly
\* once on the session and the session handle is None, whether or not a report
\* object was attached to the instance.
C2_CloseOnceAfterRaise ==
  (pc = "after_teardown" /\ path = "basetest" /\ bodyRaised)
    => (quitCalls[cur] = 1 /\ self_driver = None)

\* C3: teardown_method and the fixture finalizer never propagate an error.
C3_CloseNeverRaises == ~teardownRaised

\* C4: at every point at most one session created by the worker is live.
C4_AtMostOneLive == Cardinality(Live) <= 1

RemoteCalls == Cardinality({k \in DOMAIN calls : calls[k] = "Remote"})

\* C12: a remote session creation is attempted only for a test whose gating
\* validate_config call (setup_class of its class, or the driver fixture)
\* returned True; after a False the test is skipped before webdriver.Remote.
C12_ValidationGates ==
  /\ RemoteCalls > 0 => validated = "True"
  /\ (validated = "False" /\ pc # "idle") => (path = "fixture" /\ setupRaised /\ cur = None)

\* C12 witness: the validation of a class returned False and a test method of
\* the class was skipped without any session having been created.
C12_Witness ==
  /\ classState = "skipped"
  /\ validated = "False"
  /\ testsRun > 0
  /\ created = 0
  /\ calls = <<>>

AppMissing == ~vin.appExists

PrerequisiteMissing ==
  \/ vin.platform_name = "android" /\ vin.androidHome # "present"
  \/ vin.platform_name = "ios" /\ vin.hostOS # "Darwin"

Bypass == vin.allowMissing = EnvStr(<<"1">>)

\* C13: validate_config returns True exactly when no check failed or
\* ALLOW_MISSING_APP is "1", and it reports every failed check (the missing
\* artifact and the missing platform prerequisite), not only the first.
C13_ValidateResult ==
  vout # NotValidated
    => /\ vout.ret <=> ((~AppMissing /\ ~PrerequisiteMissing) \/ Bypass)
       /\ Len(vout.reported) = (IF AppMissing THEN 1 ELSE 0)
                                 + (IF PrerequisiteMissing THEN 1 ELSE 0)
       /\ AppMissing => vout.reported[1] = "App not found"

\* C13 witness: the artifact and ANDROID_HOME are both missing, no bypass:
\* False is returned and both failures are reported.
C13_Witness ==
  /\ vin.platform_name = "android"
  /\ AppMissing /\ PrerequisiteMissing /\ ~Bypass
  /\ vout # NotValidated
  /\ ~vout.ret
  /\ Len(vout.reported) = 2

(***************************************************************************)
(* Claims about the locator resolver                                       *)
(***************************************************************************)

FindDone == fresult.kind # "pending"

\* find over a chain [D1, D2].
ChainFinds == {"find_element_flutter_first", "find_flutter_element_by_key",
               "choose_locator"}

\* find over a chain [D1 instrumented, D2 native].
FlutterFinds == {"find_element_flutter_first", "find_flutter_element_by_key"}

\* find operations that raise when nothing resolves.
RaisingFinds == FlutterFinds \cup {"wait_for_element"}

IsPresentOps == {"is_element_present", "BaseTest_is_element_present",
                 "is_element_present_flutter_first"}

\* D1 resolves within its timeout: it is on screen before the wait on it gives
\* up, the session is alive then, and its backend can be asked.
D1Resolves ==
  /\ appears["D1"] < timeout
  /\ diesAt > appears["D1"]
  /\ fop \in FlutterFirstOps => (flutterAvailable /\ ~d1Unsupported)

D1NeverResolves == appears["D1"] = Never

\* The tick at which the wait on D2 begins when D1 never resolves: after D1's
\* timeout when D1 is polled, at once when it is rejected or skipped.
D2Start == IF flutterAvailable /\ ~d1Unsupported THEN timeout ELSE 0

D2ResolveTick == IF appears["D2"] > D2Start THEN appears["D2"] ELSE D2Start

\* D2 resolves within its own timeout, on a live session.
D2Resolves ==
  /\ D2ResolveTick < D2Start + timeout
  /\ diesAt > D2ResolveTick

AttemptedDescriptors == [k \in 1..Len(attempts) |-> attempts[k].d]

AttemptsStarted == Len(attempts) + (IF idx # 0 /\ ~FindDone THEN 1 ELSE 0)

\* C5: for every chain [D1, D2] in which D1 resolves, find returns D1's result
\* and no resolution attempt is made for D2.
C5_ChainOrdering ==
  (fop \in ChainFinds /\ D1Resolves)
    => /\ idx # 2
       /\ \A k \in 1..Len(attempts) : attempts[k].d # "D2"
       /\ FindDone => (fresult.kind \in {"element", "locator"} /\ fresult.val = "D1")

\* C5 witness: a flutter-first find returned D1 although D2 was on screen too.
C5_Witness ==
  /\ fop = "find_element_flutter_first"
  /\ D1Resolves
  /\ appears["D2"] = 0
  /\ fresult = Element("D1")

\* C6 as stated: for every chain [D1 instrumented, D2 native] in which D1 never
\* resolves and D2 does, find returns D2's element and D1 was attempted exactly
\* once, failing, before D2.
C6_FallbackAfterD1Attempt ==
  (fop \in FlutterFinds /\ D1NeverResolves /\ D2Resolves /\ FindDone)
    => /\ fresult = Element("D2")
       /\ Len(attempts) = 2
       /\ attempts[1].d = "D1" /\ attempts[1].res # "found"
       /\ attempts[2] = [d |-> "D2", res |-> "found"]

\* C6 amended: find returns D2's element; with the flutter finder available D1
\* was attempted exactly once, failing, before D2; without it D1 is not
\* attempted and the only attempt is D2's.
C6_Fallback ==
  (fop \in FlutterFinds /\ D1NeverResolves /\ D2Resolves /\ FindDone)
    => /\ fresult = Element("D2")
       /\ attempts =
            IF flutterAvailable
            THEN <<[d |-> "D1", res |-> IF d1Unsupported THEN "error" ELSE "timeout"],
                   [d |-> "D2", res |-> "found"]>>
            ELSE <<[d |-> "D2", res |-> "found"]>>

\* C6 witness: D1 was polled until its timeout, then D2 was found.
C6_Witness ==
  /\ fop = "find_flutter_element_by_key"
  /\ D1NeverResolves /\ D2Resolves
  /\ flutterAvailable /\ ~d1Unsupported
  /\ fresult = Element("D2")
  /\ Len(attempts) = 2

\* C7: when no descriptor of the chain resolves within its timeout, find raises
\* a not-found error that carries the list of the descriptors attempted.
C7_ExhaustionCarriesChain ==
  (/\ fop \in RaisingFinds
   /\ FindDone
   /\ diesAt = Never
   /\ \A k \in 1..Len(attempts) : attempts[k].res # "found")
    => /\ fresult.kind = "raise"
       /\ fresult.val = "TimeoutException"
       /\ fresult.carried = AttemptedDescriptors

\* C8: is_element_present and is_element_present_flutter_first never raise:
\* they return False on every failure and True exactly when the element
\* resolved.
C8_IsPresentNeverRaises ==
  (fop \in IsPresentOps /\ FindDone)
    => /\ fresult.kind = "bool"
       /\ (fresult.val = "True") <=> (\E k \in 1..Len(attempts) : attempts[k].res = "found")

C10_ReturnedPortProbed ==
  (ppc = "returned") => (nProbes > 0 /\ lastProbe = [port |-> ret, ok |-> TRUE])

\* C10 amended: a port returned by a scan hit was observed bindable by the
\* probe made immediately before the return; the explicit offset returns
\* 8200 + offset without any probe, and the exhausted scan returns 8200 after
\* 200 probes that all failed.
C10_ScanHitProbed ==
  (ppc = "returned")
    => CASE retPath = "scan_hit"  -> /\ lastProbe = [port |-> ret, ok |-> TRUE]
                                     /\ ~Occupied(ret)
         [] retPath = "offset"    -> nProbes = 0
         [] retPath = "exhausted" -> /\ ret = BasePort
                                     /\ nProbes = ScanWidth
                                     /\ ~lastProbe.ok

\* C10 witness: a scan that passed over a bound port and returned the next.
C10_Witness ==
  /\ ppc = "returned"
  /\ retPath = "scan_hit"
  /\ nProbes = 2
  /\ ret = seed + 1

(***************************************************************************)
(* Claims about parallel workers                                           *)
(***************************************************************************)

LiveWorkers == {w \in Workers : wk[w].pc = "live"}

\* C11 as stated: in every interleaving of the workers, no two simultaneously
\* live sessions hold the same instrumentation port.
C11_PortUnique ==
  \A v, w \in LiveWorkers : v # w => wk[v].port # wk[w].port

\* C11 amended: a port returned by a scan hit was not held by any session live
\* at the time of its probe, so two simultaneously live sessions hold the same
\* port only when the other session's server bound it after the probe, or when
\* the port was returned unprobed (explicit offset, exhausted scan).
C11_UniqueOutsideRaceWindow ==
  \A v, w \in LiveWorkers :
    (v # w /\ wk[v].port = wk[w].port /\ wk[w].path = "scan_hit") => v \notin wk[w].before

\* C11 witness: two sessions are live at once on different ports, the second
\* worker's scan having passed over the first session's port.
C11_Witness ==
  \E v, w \in LiveWorkers :
    /\ v # w
    /\ wk[w].path = "scan_hit"
    /\ v \in wk[w].before
    /\ wk[v].port = wk[w].seed
    /\ wk[w].port = wk[w].seed + 1

(***************************************************************************)
(* Claims about the capability profile builder                             *)
(***************************************************************************)

\* get_capabilities has just been called on the config.
FirstBuilt == cpc = "built"

FirstProfile == FirstBuilt /\ built[1].kind = "profile"

\* The override variables: every variable the builder reads except the worker
\* identifier, which the test runner sets.
OverrideVars == EnvNames \ {"PYTEST_XDIST_WORKER_ID"}

\* The override variables read when a profile of the platform is built.
PlatformVars(plat) ==
  IF plat = "android"
  THEN AndroidTimeoutVars \cup AndroidNameVars
         \cup {"ANDROID_NO_RESET", "SYSTEM_PORT_OFFSET", "APP_PATH"}
  ELSE IosIntVars \cup IosNameVars
         \cup {"USE_PREBUILT_WDA", "IOS_DEVICE_NAME", "IOS_BUNDLE_ID", "APP_PATH"}

\* The profile field an override variable stands for.
Field(name) ==
  CASE name = "ANDROID_AUTOMATION_NAME"       -> "automationName"
    [] name = "ANDROID_API_LEVEL"             -> "platformVersion"
    [] name = "ANDROID_DEVICE_NAME"           -> "deviceName"
    [] name = "ANDROID_APP_WAIT_ACTIVITY"     -> "appWaitActivity"
    [] name = "ANDROID_NO_RESET"              -> "noReset"
    [] name = "ANDROID_INSTALL_TIMEOUT_MS"    -> "androidInstallTimeout"
    [] name = "UIA2_INSTALL_TIMEOUT_MS"       -> "uiautomator2ServerInstallTimeout"
    [] name = "UIA2_LAUNCH_TIMEOUT_MS"        -> "uiautomator2ServerLaunchTimeout"
    [] name = "ADB_EXEC_TIMEOUT_MS"           -> "adbExecTimeout"
    [] name = "ANDROID_AVD_NAME"              -> "avd"
    [] name = "SYSTEM_PORT_OFFSET"            -> "systemPort"
    [] name = "APP_PATH"                      -> "app"
    [] name = "IOS_VERSION"                   -> "platformVersion"
    [] name = "IOS_DEVICE_NAME"               -> "deviceName"
    [] name = "IOS_BUNDLE_ID"                 -> "bundleId"
    [] name = "WDA_LAUNCH_TIMEOUT_MS"         -> "wdaLaunchTimeout"
    [] name = "WDA_CONNECTION_TIMEOUT_MS"     -> "wdaConnectionTimeout"
    [] name = "WDA_STARTUP_RETRIES"           -> "wdaStartupRetries"
    [] name = "WDA_STARTUP_RETRY_INTERVAL_MS" -> "wdaStartupRetryInterval"
    [] name = "XCODE_ORG_ID"                  -> "xcodeOrgId"
    [] name = "XCODE_SIGNING_ID"              -> "xcodeSigningId"
    [] name = "WDA_BUNDLE_ID"                 -> "updatedWDABundleId"
    [] name = "USE_PREBUILT_WDA"              -> "usePrebuiltWDA"
    [] name = "SIMULATOR_STARTUP_TIMEOUT_MS"  -> "simulatorStartupTimeout"

\* The value the field takes when the override x of the variable wins.
Overridden(name, x) ==
  CASE name \in AndroidTimeoutVars \cup IosIntVars -> IntVal(int(x).val)
    [] name = "SYSTEM_PORT_OFFSET"                 -> IntVal(BasePort + int(x).val)
    [] name \in FlagVars                           -> BoolVal(x = <<"1">>)
    [] OTHER                                       -> StrVal(x)

\* C15: get_capabilities returns a profile for every platform, environment
\* and environment-variable snapshot; it never raises.
C15_BuildTotal == FirstBuilt => built[1].kind = "profile"

\* C16 as stated: two get_capabilities calls on one config under the same
\* environment-variable snapshot yield identical profiles, the instrumentation
\* port included, whatever the process id and the ports occupied at each call.
C16_Deterministic == (cpc = "rebuilt") => built[1] = built[2]

OffsetIsDecimal ==
  env["SYSTEM_PORT_OFFSET"].set /\ isdigit(env["SYSTEM_PORT_OFFSET"].val)

\* C16 amended: two such calls that both return yield profiles with the same
\* keys and the same value for every key other than systemPort; the outcomes
\* are identical, the port included, for an iOS profile, when
\* SYSTEM_PORT_OFFSET is a string of digits, and when a call raises ValueError.
C16_DeterministicExceptPort ==
  (cpc = "rebuilt")
    => /\ (built[1].kind = "profile" /\ built[2].kind = "profile")
            => /\ DOMAIN built[1].caps = DOMAIN built[2].caps
               /\ \A k \in DOMAIN built[1].caps \ {"systemPort"} :
                    built[1].caps[k] = built[2].caps[k]
       /\ (platform_name = "ios" \/ OffsetIsDecimal) => built[1] = built[2]
       /\ ("ValueError" \in {built[1].err, built[2].err}) => built[1] = built[2]

\* C16 witness: two Android profiles under one snapshot that differ in
\* systemPort only.
C16_Witness ==
  /\ cpc = "rebuilt"
  /\ platform_name = "android"
  /\ built[1].kind = "profile" /\ built[2].kind = "profile"
  /\ built[1].caps["systemPort"] # built[2].caps["systemPort"]

\* C17: for every override variable and every environment tier, when the
\* variable is set (to a value that parses) the profile field it stands for
\* takes the override's value.
C17_OverrideWins ==
  FirstProfile
    => \A name \in SetVars(env) \cap PlatformVars(platform_name) :
         (/\ env[name].val # <<>>
          /\ name = "SIMULATOR_STARTUP_TIMEOUT_MS" => "isSimulator" \in DOMAIN built[1].caps)
           => /\ Field(name) \in DOMAIN built[1].caps
              /\ built[1].caps[Field(name)] = Overridden(name, env[name].val)

\* The profile the same config parameters give with the variable unset.
WithoutVar(name) ==
  LET e == [env EXCEPT ![name] = Unset] IN
  get_capabilities(platform_name, environment, get_app_build_path(platform_name, e), e, pid)

\* C18: the profile built with one override variable set differs from the
\* profile built without it in the field of that variable only: every other
\* key is present in both with the same value.
C18_OnlyOwnField ==
  FirstProfile
    => \A name \in SetVars(env) \cap OverrideVars :
         LET without == WithoutVar(name)
             keys == DOMAIN built[1].caps \cup DOMAIN without.caps
         IN without.kind = "profile"
              => \A k \in keys \ {Field(name)} :
                   /\ k \in DOMAIN built[1].caps
                   /\ k \in DOMAIN without.caps
                   /\ built[1].caps[k] = without.caps[k]

\* C19: on either platform a profile built with environment "ci" has noReset
\* false, fullReset true and headless true; one built with environment "local"
\* and no reset override has noReset true, fullReset false and no headless key.
C19_TierResetPolicy ==
  FirstProfile
    => /\ environment = "ci"
            => /\ built[1].caps["noReset"] = BoolVal(FALSE)
               /\ built[1].caps["fullReset"] = BoolVal(TRUE)
               /\ "isHeadless" \in DOMAIN built[1].caps
               /\ built[1].caps["isHeadless"] = BoolVal(TRUE)
       /\ (environment = "local" /\ ~env["ANDROID_NO_RESET"].set)
            => /\ built[1].caps["noReset"] = BoolVal(TRUE)
               /\ built[1].caps["fullReset"] = BoolVal(FALSE)
               /\ "isHeadless" \notin DOMAIN built[1].caps

\* C20: in every profile built exactly one of noReset and fullReset is true.
C20_ExactlyOneReset ==
  FirstProfile => (built[1].caps["noReset"].b # built[1].caps["fullReset"].b)

\* The capability keys that hold a timeout.
TimeoutKeys ==
  {"newCommandTimeout", "androidInstallTimeout", "uiautomator2ServerInstallTimeout",
   "uiautomator2ServerLaunchTimeout", "adbExecTimeout", "avdLaunchTimeout",
   "avdReadyTimeout", "deviceReadyTimeout", "androidDeviceReadyTimeout",
   "wdaLaunchTimeout", "wdaConnectionTimeout", "simulatorStartupTimeout"}

\* The four Android timeouts test_timeouts_are_at_least_300s reads.
AndroidLongTimeoutKeys ==
  {"androidInstallTimeout", "uiautomator2ServerInstallTimeout",
   "uiautomator2ServerLaunchTimeout", "adbExecTimeout"}

\* C21: every timeout of every profile built is a positive integer, whatever
\* the platform, the environment and the value of a timeout override; with no
\* timeout override set the four Android install, server install, server
\* launch and adb exec timeouts are at least 300000 ms.
C21_TimeoutsPositive ==
  FirstProfile
    => /\ \A k \in TimeoutKeys \cap DOMAIN built[1].caps :
            built[1].caps[k].t = "int" /\ built[1].caps[k].n > 0
       /\ (platform_name = "android" /\ SetVars(env) \cap AndroidTimeoutVars = {})
            => \A k \in AndroidLongTimeoutKeys : built[1].caps[k].n >= 300000

(***************************************************************************)
(* Further claims about the port allocator                                 *)
(***************************************************************************)

PortEnded == ppc \in {"returned", "raised"}

\* C22: the port the allocator returns is in 8000..9000 for every worker
\* identifier, process id, port occupancy and SYSTEM_PORT_OFFSET value.
C22_PortInRange == (ppc = "returned") => (ret >= 8000 /\ ret <= 9000)

\* SYSTEM_PORT_OFFSET is a non-empty string of the decimal digits 0-9.
OffsetDecimal ==
  /\ offsetEnv.set
  /\ Len(offsetEnv.val) > 0
  /\ \A k \in 1..Len(offsetEnv.val) : offsetEnv.val[k] \in AsciiDigits

\* C25 as stated: whenever SYSTEM_PORT_OFFSET is present the allocator returns
\* 8200 plus the offset, for every value of the variable, without a probe.
C25_OffsetUnconditional ==
  (PortEnded /\ offsetEnv.set /\ offsetEnv.val # <<>>)
    => /\ ppc = "returned"
       /\ retPath = "offset"
       /\ nProbes = 0
       /\ int(offsetEnv.val).ok
       /\ ret = BasePort + int(offsetEnv.val).val

\* C25 amended: when SYSTEM_PORT_OFFSET is a non-empty string of decimal
\* digits the allocator returns 8200 plus its value without any probe,
\* whatever the worker identifier, the process id and the ports occupied; any
\* other value is not taken as an offset.
C25_DecimalOffsetUnconditional ==
  (PortEnded /\ offsetEnv.set)
    => IF OffsetDecimal
       THEN /\ ppc = "returned"
            /\ retPath = "offset"
            /\ nProbes = 0
            /\ ret = BasePort + DecVal(offsetEnv.val)
       ELSE retPath # "offset"

\* C25 witness: the offset port is returned although every port is bound and
\* the worker identifier is not a number.
C25_Witness ==
  /\ ppc = "returned"
  /\ retPath = "offset"
  /\ offsetEnv.val = <<"7">>
  /\ occ = "all"
  /\ workerEnv = <<"g", "w", "x">>
  /\ ret = BasePort + 7

\* C26: without an offset override the candidates are probed in the order
\* seed, seed + 1, ... with seed = 8200 + worker number + (pid mod 100); the
\* first candidate whose probe succeeds is returned and none after it is
\* probed; at most 200 probes are made; when all 200 fail the base port 8200
\* is returned without a probe of its own; and the allocator always ends.
C26_ScanBounded ==
  /\ [](/\ nProbes <= ScanWidth
        /\ (ppc = "scan" \/ retPath \in {"scan_hit", "exhausted"})
             => /\ seed = BasePort + worker_num(workerEnv).val + (pid % PidModulus)
                /\ nProbes > 0 => lastProbe.port = seed + nProbes - 1
        /\ (ppc = "scan" /\ nProbes > 0) => ~lastProbe.ok
        /\ (ppc = "returned" /\ retPath = "scan_hit")
             => /\ lastProbe = [port |-> ret, ok |-> TRUE]
                /\ ret = seed + nProbes - 1
        /\ (ppc = "returned" /\ retPath = "exhausted")
             => /\ ret = BasePort
                /\ nProbes = ScanWidth
                /\ lastProbe = [port |-> seed + ScanWidth - 1, ok |-> FALSE])
  /\ <>PortEnded

\* C26 witness: a scan that found its 200th candidate bindable, after 199
\* probes that failed.
C26_Witness ==
  /\ ppc = "returned"
  /\ retPath = "scan_hit"
  /\ nProbes = ScanWidth
  /\ ret = seed + ScanWidth - 1

(***************************************************************************)
(* Validation against the profile built                                    *)
(***************************************************************************)

\* The inputs of validate_config(config) for the config of the state, on any
\* host.
HostsOfConfig == {i \in ValidateInputs : i.platform_name = platform_name}

\* The macOS host check is applied to the config: on every host that is not
\* macOS the validation reports it.
MacCheckApplied ==
  \A i \in HostsOfConfig :
    (i.hostOS # "Darwin")
      => \E k \in DOMAIN validate_config(i).reported :
           validate_config(i).reported[k] = "iOS testing requires macOS"

\* The SDK home check is applied to the config: on every host without
\* ANDROID_HOME the validation reports it.
SdkCheckApplied ==
  \A i \in HostsOfConfig :
    (i.androidHome \in {"unset", "empty"})
      => \E k \in DOMAIN validate_config(i).reported :
           validate_config(i).reported[k] = "ANDROID_HOME environment variable not set"

\* C30: for every platform name get_config accepts, an iOS (XCUITest) profile
\* is built only for a config to which validate_config applies the macOS host
\* check, and an Android profile only for one to which it applies the SDK
\* home check.
C30_ValidatedPlatformIsBuilt ==
  FirstProfile
    => /\ (built[1].caps["platformName"] = StrVal(<<"iOS">>)) => MacCheckApplied
       /\ (built[1].caps["platformName"] = StrVal(<<"Android">>)) => SdkCheckApplied

(***************************************************************************)
(* Claims about element interaction                                        *)
(***************************************************************************)

\* The element commands of one kind issued so far.
Issued(cmd) == {k \in DOMAIN cmds : cmds[k].cmd = cmd}

\* The wait that ended last resolved descriptor d.
ResolvedByLastWait(d) ==
  /\ waits # <<>>
  /\ waits[Len(waits)].d = d
  /\ waits[Len(waits)].res = "found"

\* C23: in every tap operation (tap, tap_element, tap_flutter_first,
\* tap_flutter_element_by_key) click is issued only on an element that a wait
\* of the operation found present and clickable, never after a wait for
\* presence only.
C23_TapAfterClickableWait ==
  (aop \in TapOps)
    => \A k \in Issued("click") :
         /\ ResolvedByLastWait(cmds[k].d)
         /\ waits[Len(waits)].cond = "clickable"

\* C24: when setup_method has returned without raising, the settle sequence
\* was completed in order (content rendered, splash passed, first-run
\* interstitial skipped, landing checked) and the app shows the landing
\* screen.
C24_SettleCompleted ==
  (pc = "after_setup" /\ path = "basetest" /\ ~setupRaised)
    => /\ settle = <<"content", "splash_wait", "skip_if_present", "ensure_loaded">>
       /\ screen = "landing"

\* C27: in enter_text, BaseTest.enter_text and enter_text_flutter_first the
\* commands are issued on the element this call resolved; with clear_first
\* clear is issued before send_keys, without it clear is not issued at all;
\* when the resolution fails neither is issued; an operation that ended
\* normally issued send_keys.
C27_ClearThenType ==
  (aop \in EnterOps)
    => /\ \A k \in DOMAIN cmds : cmds[k].d = target /\ ResolvedByLastWait(target)
       /\ ~clear_first => Issued("clear") = {}
       /\ \A k \in Issued("send_keys") :
            /\ k = Len(cmds)
            /\ clear_first => (k = 2 /\ cmds[1].cmd = "clear")
            /\ ~clear_first => k = 1
       /\ \A k \in Issued("clear") : k = 1
       /\ (apc = "raised" /\ target = "") => cmds = <<>>
       /\ (apc = "done") => Issued("send_keys") # {}

\* C27 witness: enter_text_flutter_first with clear_first resolved the native
\* fallback after the instrumented attempt failed, cleared it and typed.
C27_Witness ==
  /\ aop = "enter_text_flutter_first"
  /\ clear_first
  /\ apc = "done"
  /\ target = "D2"
  /\ Len(waits) = 2
  /\ cmds = <<[cmd |-> "clear", d |-> "D2"], [cmd |-> "send_keys", d |-> "D2"]>>

\* C28: choose_locator tries the locators in declared order, returns the
\* first that resolves to a present element without trying a later one, and
\* returns the first locator when none does; it never raises, and an
\* exception on one locator does not keep the later ones from being tried.
C28_ChooseLocator ==
  (fop = "choose_locator" /\ fresult # Pending)
    => LET hits == {k \in DOMAIN attempts : attempts[k].res = "found"} IN
       /\ fresult.kind = "locator"
       /\ \A k \in DOMAIN attempts : attempts[k].d = Chain(fop)[k]
       /\ IF hits # {}
          THEN /\ hits = {Len(attempts)}
               /\ fresult.val = attempts[Len(attempts)].d
          ELSE /\ Len(attempts) = Len(Chain(fop))
               /\ fresult.val = Chain(fop)[1]

\* C28 witness: the first locator was not found within its timeout, the
\* second was still tried and its wait raised (the session had died), and the
\* first locator was returned.
C28_Witness ==
  /\ fop = "choose_locator"
  /\ Len(attempts) = 2
  /\ attempts[1].res = "timeout"
  /\ attempts[2].res = "error"
  /\ fresult = Locator("D1")

\* C29: each instrumented-first find (find_element_flutter_first,
\* find_flutter_element_by_key, _by_text, _by_type) that did not get its
\* element from the instrumented backend has made an attempt on the native
\* backend by the time it returns or raises.
C29_DegradesToNative ==
  (aop \in InstrumentedFirstFinds /\ apc \in {"done", "raised"})
    => \/ (waits[1].backend = "instrumented" /\ waits[1].res = "found")
       \/ \E k \in DOMAIN waits : waits[k].backend = "native"

====
